---- MODULE Spec2Model ----
(***************************************************************************)
(* Model of scripts/build_diff.py: the price extraction and reconciliation *)
(* pipeline (retailer locator, reseller locator, diff builder, main).      *)
(*                                                                         *)
(* Texts are strings, read one character at a time with SubSeq.  The       *)
(* character "~" stands for a run of PadLen filler characters that are     *)
(* neither word characters, digits, whitespace nor the currency marker;    *)
(* every other character has width 1.  Python offsets (m.end(), len, the   *)
(* 2000 character window) are sums of widths.                              *)
(***************************************************************************)
EXTENDS Integers, Sequences, FiniteSets, TLC

----------------------------------------------------------------------------
(* Bounds of the model *)

PadLen == 1000

----------------------------------------------------------------------------
(* Program constants *)

Floor == 50000

WindowLen == 2000

NoneInt == -1

NoneStr == "None"

APPLE_MODELS == <<"iPhone 17", "iPhone 17 Pro", "iPhone 17 Pro Max", "iPhone Air">>

APPLE_BUY_PAGES ==
  [m \in {APPLE_MODELS[i] : i \in 1..Len(APPLE_MODELS)} |->
     CASE m = "iPhone 17" -> "buy-iphone/iphone-17"
       [] m = "iPhone 17 Pro" -> "buy-iphone/iphone-17-pro"
       [] m = "iPhone 17 Pro Max" -> "buy-iphone/iphone-17-pro"
       [] m = "iPhone Air" -> "buy-iphone/iphone-air"]

MORIMORI_URL == "morimori-kaitori/search"

\* the URLs in the order the loop over APPLE_BUY_PAGES.items() fetches them
AppleUrls == [i \in 1..Len(APPLE_MODELS) |-> APPLE_BUY_PAGES[APPLE_MODELS[i]]]

cap_alts == <<"128GB", "256GB", "512GB", "1TB", "2TB">>

cap_order == <<"128GB", "256GB", "512GB", "1TB", "2TB">>

----------------------------------------------------------------------------
(* Characters *)

At(s, i) == IF i >= 1 /\ i <= Len(s) THEN SubSeq(s, i, i) ELSE ""

Digit == {"0", "1", "2", "3", "4", "5", "6", "7", "8", "9"}

DigitVal(c) ==
  CASE c = "0" -> 0 [] c = "1" -> 1 [] c = "2" -> 2 [] c = "3" -> 3
    [] c = "4" -> 4 [] c = "5" -> 5 [] c = "6" -> 6 [] c = "7" -> 7
    [] c = "8" -> 8 [] c = "9" -> 9

Space == {" ", "\n", "\t"}

NonWord == Space \cup {",", "~", "/", "-", ":", "(", ")", ""}

IsWord(c) == c \notin NonWord

Width(c) == IF c = "~" THEN PadLen ELSE 1

LowerCase == "abcdefghijklmnopqrstuvwxyz"

UpperCase == "ABCDEFGHIJKLMNOPQRSTUVWXYZ"

\* str.upper() and case folding, per character
UpperMap ==
  [c \in {SubSeq(LowerCase, i, i) : i \in 1..Len(LowerCase)} |->
     LET i == CHOOSE j \in 1..Len(LowerCase) : SubSeq(LowerCase, j, j) = c
     IN SubSeq(UpperCase, i, i)]

Upper(c) == IF c \in DOMAIN UpperMap THEN UpperMap[c] ELSE c

RECURSIVE UpperStr(_)
UpperStr(s) == IF s = "" THEN "" ELSE Upper(Head(s)) \o UpperStr(Tail(s))

AsciiOrder == " 0123456789ABCDEFGHIJKLMNOPQRSTUVWXYZabcdefghijklmnopqrstuvwxyz"

OrdMap ==
  [c \in {SubSeq(AsciiOrder, i, i) : i \in 1..Len(AsciiOrder)} |->
     CHOOSE j \in 1..Len(AsciiOrder) : SubSeq(AsciiOrder, j, j) = c]

Ord(c) == OrdMap[c]

(* Python offset of the end of the first i characters of s *)
RECURSIVE Offset(_, _)
Offset(s, i) == IF i <= 0 THEN 0 ELSE Offset(s, i - 1) + Width(At(s, i))

PyLen(s) == Offset(s, Len(s))

(* s[a:b] for Python offsets a <= b; a filler run cut by the slice stays a filler run *)
RECURSIVE SliceFrom(_, _, _, _, _)
SliceFrom(s, i, start, a, b) ==
  IF i > Len(s) \/ start >= b THEN ""
  ELSE LET w == Width(At(s, i))
           rest == SliceFrom(s, i + 1, start + w, a, b)
       IN IF start + w > a THEN At(s, i) \o rest ELSE rest

Slice(s, a, b) == SliceFrom(s, 1, 0, a, b)

(* first index j >= i whose character is outside class, Len(s)+1 if none *)
RECURSIVE RunEnd(_, _, _)
RunEnd(s, i, class) ==
  IF i > Len(s) \/ At(s, i) \notin class THEN i ELSE RunEnd(s, i + 1, class)

\* regex word boundary between characters i-1 and i
WordBoundary(s, i) == IsWord(At(s, i - 1)) # IsWord(At(s, i))

(* literal w matches s at i, ignoring case *)
MatchIC(s, i, w) ==
  /\ i + Len(w) - 1 <= Len(s)
  /\ \A k \in 1..Len(w) : Upper(At(s, i + k - 1)) = Upper(At(w, k))

RECURSIVE ContainsFrom(_, _, _)
ContainsFrom(s, sub, i) ==
  IF i + Len(sub) - 1 > Len(s) THEN FALSE
  ELSE IF SubSeq(s, i, i + Len(sub) - 1) = sub THEN TRUE
  ELSE ContainsFrom(s, sub, i + 1)

(* sub in s *)
Contains(s, sub) == ContainsFrom(s, sub, 1)

----------------------------------------------------------------------------
(* parse_yen_values *)

(* int(m.replace(",", "")) *)
RECURSIVE IntOf(_, _)
IntOf(m, acc) ==
  IF m = "" THEN acc
  ELSE IF Head(m) = "," THEN IntOf(Tail(m), acc)
  ELSE IntOf(Tail(m), acc * 10 + DigitVal(Head(m)))

\* index of the currency marker ending a match of the amount pattern at i, 0 if none
YenMatch(s, i) ==
  IF At(s, i) \notin Digit THEN 0
  ELSE LET j == RunEnd(s, i + 1, Digit \cup {","})
           k == RunEnd(s, j, Space)
       IN IF At(s, k) = "円" THEN k ELSE 0

RECURSIVE ParseYenFrom(_, _)
ParseYenFrom(s, i) ==
  IF i > Len(s) THEN <<>>
  ELSE LET k == YenMatch(s, i)
       IN IF k = 0 THEN ParseYenFrom(s, i + 1)
          ELSE <<IntOf(SubSeq(s, i, RunEnd(s, i + 1, Digit \cup {","}) - 1), 0)>>
               \o ParseYenFrom(s, k + 1)

parse_yen_values(text) == ParseYenFrom(text, 1)

----------------------------------------------------------------------------
(* norm_spaces *)

RECURSIVE CollapseFrom(_, _)
CollapseFrom(s, i) ==
  IF i > Len(s) THEN ""
  ELSE IF At(s, i) \in Space THEN " " \o CollapseFrom(s, RunEnd(s, i, Space))
  ELSE At(s, i) \o CollapseFrom(s, i + 1)

Strip(s) ==
  LET a == RunEnd(s, 1, Space)
      b == CHOOSE j \in 0..Len(s) :
             /\ j = 0 \/ At(s, j) \notin Space
             /\ \A k \in (j + 1)..Len(s) : At(s, k) \in Space
  IN IF a > b THEN "" ELSE SubSeq(s, a, b)

norm_spaces(s) == Strip(CollapseFrom(s, 1))

----------------------------------------------------------------------------
(* extract_capacity *)

\* end index of a match of one alternative (digits, unit letter, B) at i, 0 if none
UnitMatch(s, i, digits, unit) ==
  IF ~(WordBoundary(s, i) /\ MatchIC(s, i, digits)) THEN 0
  ELSE LET g == RunEnd(s, i + Len(digits), Space)
       IN IF ~MatchIC(s, g, unit) THEN 0
          ELSE LET b == RunEnd(s, g + 1, Space)
               IN IF MatchIC(s, b, "B") /\ WordBoundary(s, b + 1) THEN b ELSE 0

RECURSIVE ExtractFrom(_, _)
ExtractFrom(s, i) ==
  IF i > Len(s) THEN NoneStr
  ELSE IF \E d \in {"128", "256", "512"} : UnitMatch(s, i, d, "G") # 0
       THEN SubSeq(s, i, i + 2) \o "GB"
  ELSE IF \E d \in {"1", "2"} : UnitMatch(s, i, d, "T") # 0
       THEN SubSeq(s, i, i) \o "TB"
  ELSE ExtractFrom(s, i + 1)

extract_capacity(s) == ExtractFrom(s, 1)

----------------------------------------------------------------------------
(* Small helpers over sequences and dicts *)

RECURSIVE MinSeq(_)
MinSeq(q) ==
  IF Len(q) = 1 THEN q[1]
  ELSE LET r == MinSeq(Tail(q)) IN IF q[1] <= r THEN q[1] ELSE r

RECURSIVE MaxSeq(_)
MaxSeq(q) ==
  IF Len(q) = 1 THEN q[1]
  ELSE LET r == MaxSeq(Tail(q)) IN IF q[1] >= r THEN q[1] ELSE r

EmptyDict == <<>>

DictGet(d, k, default) == IF k \in DOMAIN d THEN d[k] ELSE default

DictSet(d, k, v) == [x \in DOMAIN d \cup {k} |-> IF x = k THEN v ELSE d[x]]

----------------------------------------------------------------------------
(* scrape_apple_prices_by_capacity *)

\* "\n".join([sc.string for sc in scripts if sc.string])
RECURSIVE JoinScripts(_)
JoinScripts(scripts) ==
  IF scripts = <<>> THEN ""
  ELSE IF Head(scripts) = "" THEN JoinScripts(Tail(scripts))
  ELSE LET rest == JoinScripts(Tail(scripts))
       IN IF \A i \in 1..Len(Tail(scripts)) : Tail(scripts)[i] = ""
          THEN Head(scripts)
          ELSE Head(scripts) \o "\n" \o rest

\* length of the alternative of cap_pat matching at i, 0 if none
CapMatchAt(s, i) ==
  IF \E n \in 1..Len(cap_alts) :
       /\ WordBoundary(s, i)
       /\ MatchIC(s, i, cap_alts[n])
       /\ WordBoundary(s, i + Len(cap_alts[n]))
  THEN Len(cap_alts[CHOOSE n \in 1..Len(cap_alts) :
             /\ MatchIC(s, i, cap_alts[n])
             /\ WordBoundary(s, i + Len(cap_alts[n]))])
  ELSE 0

\* variant: the matched text is stored without .upper()
FoundCap_raw(s, i, n) == <<SubSeq(s, i, i + n - 1), Offset(s, i + n - 1)>>

\* the (cap, m.end()) pair appended for a match of length n at i
FoundCap(s, i, n) == <<UpperStr(SubSeq(s, i, i + n - 1)), Offset(s, i + n - 1)>>

RECURSIVE FindCapsFrom(_, _)
FindCapsFrom(s, i) ==
  IF i > Len(s) THEN <<>>
  ELSE LET n == CapMatchAt(s, i)
       IN IF n = 0 THEN FindCapsFrom(s, i + 1)
          ELSE <<FoundCap(s, i, n)>> \o FindCapsFrom(s, i + n)

FindCaps(s) == FindCapsFrom(s, 1)

\* variant: no plausibility floor
Plausible_any(v) == v >= 0

Plausible(v) == v >= Floor

BigOnes(yens) == SelectSeq(yens, LAMBDA v : Plausible(v))

WindowEnd(text, pos) == IF PyLen(text) < pos + WindowLen THEN PyLen(text) ELSE pos + WindowLen

\* variant: the largest amount of the window
PickOf_max(big) == MaxSeq(big)

PickOf(big) == MinSeq(big)

pick_price_after(text, pos) ==
  LET window == Slice(text, pos, WindowEnd(text, pos))
      big == BigOnes(parse_yen_values(window))
  IN IF big = <<>> THEN NoneInt ELSE PickOf(big)

\* one iteration of the loop over found_caps
StoreCandidate(tmp, text, cap, pos) ==
  IF cap \in DOMAIN tmp THEN tmp
  ELSE LET price == pick_price_after(text, pos)
       IN IF price # NoneInt THEN DictSet(tmp, cap, price) ELSE tmp

\* variant: an equal price is dropped
KeepTier_strict(p, last) == p > last

KeepTier(p, last) == p >= last

RECURSIVE CleanFrom(_, _, _)
CleanFrom(tmp, i, last) ==
  IF i > Len(cap_order) THEN EmptyDict
  ELSE IF cap_order[i] \notin DOMAIN tmp THEN CleanFrom(tmp, i + 1, last)
  ELSE LET p == tmp[cap_order[i]]
       IN IF KeepTier(p, last)
          THEN DictSet(CleanFrom(tmp, i + 1, p), cap_order[i], p)
          ELSE CleanFrom(tmp, i + 1, last)

Cleaned(tmp) == CleanFrom(tmp, 1, 0)

\* variant: a (capacity, price) pair already stored for another model is skipped
StoreCleaned_dedup(out, model, cleaned) ==
  LET fresh == {c \in DOMAIN cleaned : ~\E k \in DOMAIN out : k[2] = c /\ out[k] = cleaned[c]}
  IN [k \in DOMAIN out \cup {<<model, c>> : c \in fresh} |->
        IF k[1] = model /\ k[2] \in fresh THEN cleaned[k[2]] ELSE out[k]]

\* out[(model, cap)] = price for every item of cleaned
StoreCleaned(out, model, cleaned) ==
  [k \in DOMAIN out \cup {<<model, c>> : c \in DOMAIN cleaned} |->
     IF k[1] = model /\ k[2] \in DOMAIN cleaned THEN cleaned[k[2]] ELSE out[k]]

----------------------------------------------------------------------------
(* scrape_morimori_new_prices *)

RECURSIVE JoinCols(_)
JoinCols(cols) ==
  IF cols = <<>> THEN ""
  ELSE IF Len(cols) = 1 THEN cols[1]
  ELSE cols[1] \o " " \o JoinCols(Tail(cols))

\* row = " ".join(norm_spaces(td.get_text(" ")) for each cell)
RowText(cells) == JoinCols([i \in 1..Len(cells) |-> norm_spaces(cells[i])])

\* variant: the plain "Pro" keyword is tested first
Classify_proFirst(row) ==
  IF Contains(row, "Pro") THEN "iPhone 17 Pro"
  ELSE IF Contains(row, "Pro Max") \/ Contains(row, "ProMax") THEN "iPhone 17 Pro Max"
  ELSE IF Contains(row, "Air") THEN "iPhone Air"
  ELSE IF Contains(row, "iPhone 17") \/ Contains(row, "iPhone17") THEN "iPhone 17"
  ELSE NoneStr

Classify(row) ==
  IF Contains(row, "Pro Max") \/ Contains(row, "ProMax") THEN "iPhone 17 Pro Max"
  ELSE IF Contains(row, "Pro") THEN "iPhone 17 Pro"
  ELSE IF Contains(row, "Air") THEN "iPhone Air"
  ELSE IF Contains(row, "iPhone 17") \/ Contains(row, "iPhone17") THEN "iPhone 17"
  ELSE NoneStr

\* the row passes every filter of the loop body
Qualifies(cells) ==
  LET row == RowText(cells)
  IN /\ cells # <<>>
     /\ Contains(row, "新品")
     /\ extract_capacity(row) # NoneStr
     /\ Classify(row) # NoneStr
     /\ parse_yen_values(row) # <<>>

RowKey(cells) == <<Classify(RowText(cells)), extract_capacity(RowText(cells))>>

RowPrice(cells) == MaxSeq(parse_yen_values(RowText(cells)))

\* variant: the last row of a key wins
MergePrice_last(old, price) == price

MergePrice(old, price) == IF old >= price THEN old ELSE price

\* one iteration of the loop over table rows
StoreRow(out, cells) ==
  IF ~Qualifies(cells) THEN out
  ELSE DictSet(out, RowKey(cells), MergePrice(DictGet(out, RowKey(cells), 0), RowPrice(cells)))

----------------------------------------------------------------------------
(* build_diff_rows *)

\* Python's < on str, by code point
RECURSIVE StrLess(_, _)
StrLess(a, b) ==
  IF b = "" THEN FALSE
  ELSE IF a = "" THEN TRUE
  ELSE IF Head(a) = Head(b) THEN StrLess(Tail(a), Tail(b))
  ELSE Ord(Head(a)) < Ord(Head(b))

\* Python's < on (model, cap) tuples
KeyLess(a, b) == StrLess(a[1], b[1]) \/ (a[1] = b[1] /\ StrLess(a[2], b[2]))

\* sorted(keys)
RECURSIVE SortedKeys(_)
SortedKeys(S) ==
  IF S = {} THEN <<>>
  ELSE LET m == CHOOSE k \in S : \A o \in S \ {k} : KeyLess(k, o)
       IN <<m>> \o SortedKeys(S \ {m})

CommonKeys(apple, morimori) == DOMAIN apple \cap DOMAIN morimori

\* variant: retailer minus reseller
DiffOf_swapped(m, a) == a - m

DiffOf(m, a) == m - a

MakeRow(key, apple, morimori) ==
  [model |-> key[1], capacity |-> key[2], apple_price |-> apple[key],
   morimori_new_price |-> morimori[key], diff |-> DiffOf(morimori[key], apple[key])]

\* variant: equal diffs are not kept in their original order
GoesAfter_strict(r, x) == x.diff > r.diff

\* r goes after x in the stable sort with key diff, reverse=True
GoesAfter(r, x) == x.diff >= r.diff

RECURSIVE InsertRow(_, _)
InsertRow(sorted, r) ==
  IF sorted = <<>> THEN <<r>>
  ELSE IF GoesAfter(r, Head(sorted)) THEN <<Head(sorted)>> \o InsertRow(Tail(sorted), r)
  ELSE <<r>> \o sorted

\* rows.sort(key=lambda x: x["diff"], reverse=True), a stable sort
RECURSIVE SortByDiff(_, _)
SortByDiff(rows, acc) ==
  IF rows = <<>> THEN acc ELSE SortByDiff(Tail(rows), InsertRow(acc, Head(rows)))

build_diff_rows(apple, morimori) ==
  LET keys == SortedKeys(CommonKeys(apple, morimori))
  IN SortByDiff([i \in 1..Len(keys) |-> MakeRow(keys[i], apple, morimori)], <<>>)

----------------------------------------------------------------------------
(* Inputs: what the fetch and parse collaborators can return *)

\* script contents of a retailer page, one string per <script> element
AppleDocs ==
  { <<"128GB 129,800円~~256GB 149,800円~~512GB 120,000円~~1TB 189,800円">>,
    <<"256gb 1,200円 60,000円 55,000円", "">>,
    <<"128GB~~99,800円 128GB 70,000円~256GB 70,000円">>,
    <<"1TB 80,000円", "2TB 60,000円 128GB">>,
    <<>>,
    <<"128GB129,800円 3TB 90,000円">>,
    <<"128GB 90,000円~~256GB 80,000円~~512GB 85,000円">>,
    <<"128GB 90,000円~~128GB 60,000円 2TB~99,800円~60,000円">> }

AppleDocsSmall ==
  { <<"256gb 1,200円 60,000円 55,000円", "">>,
    <<"128GB 150,000円~~1Tb 160,000円">>,
    <<>> }

\* cells of one table row of the reseller page
MorimoriRows ==
  { <<"iPhone 17 Pro Max", "256GB", "新品", "180,000円">>,
    <<"iPhone 17 Pro Max  256 G B", " 新品 \n 190,000円 5,000円">>,
    <<"iPhone17 Pro", "256gb", "新品", "49,800円">>,
    <<"iPhone 17", "3TB", "新品", "70,000円">>,
    <<"iPhone 17 Pro Max 256GB", "USED", "200,000円">>,
    <<"iPhone 17 512GB 新品">>,
    <<"Galaxy 128GB 新品 90,000円">>,
    <<>> }

MorimoriRowsSmall ==
  { <<"iPhone 17 Pro Max", "256GB", "新品", "180,000円">>,
    <<"iPhone 17", "1 TB", "新品", "155,000円">>,
    <<"iPhone Air 128gb 新品 49,800円">>,
    <<"iPhone 17", "3TB", "新品", "70,000円">> }

MaxRows == 3

MaxRowsSmall == 2

RowSeqs(pool, n) == UNION {[1..k -> pool] : k \in 0..n}

\* input tables of build_diff_rows
DiffKeys ==
  { <<"iPhone 17", "256GB">>, <<"iPhone 17", "1TB">>,
    <<"iPhone 17 Pro", "128GB">>, <<"iPhone 17 Pro Max", "128GB">> }

DiffPrices == {100000, 130000}

Tables == UNION {[K -> DiffPrices] : K \in SUBSET DiffKeys}

----------------------------------------------------------------------------
(* State *)

VARIABLES
  pc,           \* position of main
  mdl,          \* index in APPLE_BUY_PAGES of the model being scraped
  docs,         \* what fetch returned for each retailer model so far
  script_text,  \* joined script text of the current retailer page
  found_caps,   \* (cap, m.end()) pairs of the current retailer page
  ci,           \* position of the loop over found_caps
  temp,         \* candidate price per capacity of the current model
  apple,        \* retailer table
  mrows,        \* table rows of the reseller page
  ri,           \* position of the loop over table rows
  morimori,     \* reseller table
  rows,         \* diff rows
  diff_written, \* data/diff.json has been written by this run
  diff_json,    \* its content
  meta_written, \* data/meta.json has been written by this run
  meta_json,    \* its debug_counts
  fetched       \* URLs fetch has returned a document for, in call order

vars == <<pc, mdl, docs, script_text, found_caps, ci, temp, apple, mrows, ri,
          morimori, rows, diff_written, diff_json, meta_written, meta_json, fetched>>

appleVars == <<mdl, docs, script_text, found_caps, ci, temp, apple>>

morimoriVars == <<mrows, ri, morimori>>

outVars == <<rows, diff_written, diff_json, meta_written, meta_json>>

Init ==
  /\ pc = "apple_fetch"
  /\ mdl = 1
  /\ docs = EmptyDict
  /\ script_text = ""
  /\ found_caps = <<>>
  /\ ci = 1
  /\ temp = EmptyDict
  /\ apple = EmptyDict
  /\ mrows = <<>>
  /\ ri = 1
  /\ morimori = EmptyDict
  /\ rows = <<>>
  /\ diff_written = FALSE
  /\ diff_json = <<>>
  /\ meta_written = FALSE
  /\ meta_json = EmptyDict
  /\ fetched = <<>>

----------------------------------------------------------------------------
(* scrape_apple_prices_by_capacity, one step per loop iteration *)

\* html = fetch(url) succeeds; the scripts are joined and scanned for capacities
FetchApple(pool) ==
  /\ pc = "apple_fetch"
  /\ \E d \in pool :
       /\ docs' = DictSet(docs, APPLE_MODELS[mdl], d)
       /\ script_text' = JoinScripts(d)
       /\ found_caps' = FindCaps(JoinScripts(d))
  /\ ci' = 1
  /\ temp' = EmptyDict
  /\ pc' = "apple_caps"
  /\ fetched' = Append(fetched, APPLE_BUY_PAGES[APPLE_MODELS[mdl]])
  /\ UNCHANGED <<mdl, apple>>
  /\ UNCHANGED morimoriVars
  /\ UNCHANGED outVars

\* fetch raises (timeout, connection error, raise_for_status); nothing catches it
FetchAppleFails ==
  /\ pc = "apple_fetch"
  /\ pc' = "failed"
  /\ UNCHANGED appleVars
  /\ UNCHANGED morimoriVars
  /\ UNCHANGED outVars
  /\ UNCHANGED fetched

\* one iteration of: for cap, pos in found_caps
PickCap ==
  /\ pc = "apple_caps"
  /\ ci <= Len(found_caps)
  /\ temp' = StoreCandidate(temp, script_text, found_caps[ci][1], found_caps[ci][2])
  /\ ci' = ci + 1
  /\ UNCHANGED <<pc, mdl, docs, script_text, found_caps, apple>>
  /\ UNCHANGED morimoriVars
  /\ UNCHANGED outVars
  /\ UNCHANGED fetched

\* the post-processing over cap_order and the copy into out, then the next model
CleanCaps ==
  /\ pc = "apple_caps"
  /\ ci > Len(found_caps)
  /\ apple' = StoreCleaned(apple, APPLE_MODELS[mdl], Cleaned(temp))
  /\ mdl' = mdl + 1
  /\ pc' = IF mdl = Len(APPLE_MODELS) THEN "morimori_fetch" ELSE "apple_fetch"
  /\ UNCHANGED <<docs, script_text, found_caps, ci, temp>>
  /\ UNCHANGED morimoriVars
  /\ UNCHANGED outVars
  /\ UNCHANGED fetched

----------------------------------------------------------------------------
(* scrape_morimori_new_prices, one step per table row *)

FetchMorimori(pool, n) ==
  /\ pc = "morimori_fetch"
  /\ \E d \in RowSeqs(pool, n) : mrows' = d
  /\ ri' = 1
  /\ morimori' = EmptyDict
  /\ pc' = "morimori_rows"
  /\ fetched' = Append(fetched, MORIMORI_URL)
  /\ UNCHANGED appleVars
  /\ UNCHANGED outVars

\* variant: the failure is swallowed and the run goes on with an empty table
FetchMorimoriFails_swallowed ==
  /\ pc = "morimori_fetch"
  /\ pc' = "build"
  /\ UNCHANGED appleVars
  /\ UNCHANGED morimoriVars
  /\ UNCHANGED outVars
  /\ UNCHANGED fetched

FetchMorimoriFails ==
  /\ pc = "morimori_fetch"
  /\ pc' = "failed"
  /\ UNCHANGED appleVars
  /\ UNCHANGED morimoriVars
  /\ UNCHANGED outVars
  /\ UNCHANGED fetched

ProcessRow ==
  /\ pc = "morimori_rows"
  /\ ri <= Len(mrows)
  /\ morimori' = StoreRow(morimori, mrows[ri])
  /\ ri' = ri + 1
  /\ UNCHANGED <<pc, mrows>>
  /\ UNCHANGED appleVars
  /\ UNCHANGED outVars
  /\ UNCHANGED fetched

MorimoriReturns ==
  /\ pc = "morimori_rows"
  /\ ri > Len(mrows)
  /\ pc' = "build"
  /\ UNCHANGED appleVars
  /\ UNCHANGED morimoriVars
  /\ UNCHANGED outVars
  /\ UNCHANGED fetched

----------------------------------------------------------------------------
(* main: build the rows, then write the two files *)

BuildDiff ==
  /\ pc = "build"
  /\ rows' = build_diff_rows(apple, morimori)
  /\ pc' = "write_diff"
  /\ UNCHANGED appleVars
  /\ UNCHANGED morimoriVars
  /\ UNCHANGED <<diff_written, diff_json, meta_written, meta_json, fetched>>

DebugCounts ==
  [apple_models |-> Cardinality(DOMAIN apple),
   morimori_models |-> Cardinality(DOMAIN morimori),
   matched_rows |-> Len(rows)]

WriteDiff ==
  /\ pc = "write_diff"
  /\ diff_written' = TRUE
  /\ diff_json' = rows
  /\ pc' = "write_meta"
  /\ UNCHANGED appleVars
  /\ UNCHANGED morimoriVars
  /\ UNCHANGED <<rows, meta_written, meta_json, fetched>>

WriteMeta ==
  /\ pc = "write_meta"
  /\ meta_written' = TRUE
  /\ meta_json' = DebugCounts
  /\ pc' = "done"
  /\ UNCHANGED appleVars
  /\ UNCHANGED morimoriVars
  /\ UNCHANGED <<rows, diff_written, diff_json, fetched>>

----------------------------------------------------------------------------
(* Specifications *)

\* a whole run of main
Next ==
  \/ FetchApple(AppleDocsSmall)
  \/ FetchAppleFails
  \/ PickCap
  \/ CleanCaps
  \/ FetchMorimori(MorimoriRowsSmall, MaxRowsSmall)
  \/ FetchMorimoriFails
  \/ ProcessRow
  \/ MorimoriReturns
  \/ BuildDiff
  \/ WriteDiff
  \/ WriteMeta

Spec == Init /\ [][Next]_vars

\* scrape_apple_prices_by_capacity over the richer pages
NextApple ==
  \/ FetchApple(AppleDocs)
  \/ FetchAppleFails
  \/ PickCap
  \/ CleanCaps

SpecApple == Init /\ [][NextApple]_vars

\* scrape_morimori_new_prices over the richer rows
InitMorimori ==
  /\ pc = "morimori_fetch"
  /\ mdl = Len(APPLE_MODELS) + 1
  /\ docs = [m \in DOMAIN APPLE_BUY_PAGES |-> <<>>]
  /\ script_text = ""
  /\ found_caps = <<>>
  /\ ci = 1
  /\ temp = EmptyDict
  /\ apple = EmptyDict
  /\ mrows = <<>>
  /\ ri = 1
  /\ morimori = EmptyDict
  /\ rows = <<>>
  /\ diff_written = FALSE
  /\ diff_json = <<>>
  /\ meta_written = FALSE
  /\ meta_json = EmptyDict
  /\ fetched = AppleUrls

NextMorimori ==
  \/ FetchMorimori(MorimoriRows, MaxRows)
  \/ FetchMorimoriFails
  \/ ProcessRow
  \/ MorimoriReturns

SpecMorimori == InitMorimori /\ [][NextMorimori]_vars

\* build_diff_rows over arbitrary input tables
InitDiff ==
  /\ pc = "build"
  /\ mdl = Len(APPLE_MODELS) + 1
  /\ docs = EmptyDict
  /\ script_text = ""
  /\ found_caps = <<>>
  /\ ci = 1
  /\ temp = EmptyDict
  /\ apple \in Tables
  /\ mrows = <<>>
  /\ ri = 1
  /\ morimori \in Tables
  /\ rows = <<>>
  /\ diff_written = FALSE
  /\ diff_json = <<>>
  /\ meta_written = FALSE
  /\ meta_json = EmptyDict
  /\ fetched = AppleUrls \o <<MORIMORI_URL>>

NextDiff == BuildDiff

SpecDiff == InitDiff /\ [][NextDiff]_vars

----------------------------------------------------------------------------
(* Properties *)

Canonical == {"128GB", "256GB", "512GB", "1TB", "2TB"}

RowKeyOf(r) == <<r.model, r.capacity>>

ProMax == "iPhone 17 Pro Max"

\* C1: build_diff_rows returns exactly one row per key of the intersection of
\* the two key sets and none for any other key, and every row carries
\* apple_price = apple[key], morimori_new_price = morimori[key] and
\* diff = morimori[key] - apple[key].
C1_RowsAreTheIntersection ==
  pc = "write_diff" =>
    /\ \A k \in DOMAIN apple \cap DOMAIN morimori :
         Cardinality({i \in 1..Len(rows) : RowKeyOf(rows[i]) = k}) = 1
    /\ \A i \in 1..Len(rows) :
         /\ RowKeyOf(rows[i]) \in DOMAIN apple \cap DOMAIN morimori
         /\ rows[i].apple_price = apple[RowKeyOf(rows[i])]
         /\ rows[i].morimori_new_price = morimori[RowKeyOf(rows[i])]
         /\ rows[i].diff = morimori[RowKeyOf(rows[i])] - apple[RowKeyOf(rows[i])]

\* a key only the retailer has, a key only the reseller has, one common key with a non-zero diff
C1_Witness ==
  /\ pc = "write_diff"
  /\ Len(rows) = 1
  /\ rows[1].diff # 0
  /\ DOMAIN apple \ DOMAIN morimori # {}
  /\ DOMAIN morimori \ DOMAIN apple # {}

\* C2: the rows are in descending order of diff, and rows of equal diff are in
\* ascending (model, capacity) order.
C2_DescendingThenKeyOrder ==
  pc = "write_diff" =>
    \A i, j \in 1..Len(rows) :
      i < j =>
        /\ rows[i].diff >= rows[j].diff
        /\ rows[i].diff = rows[j].diff => KeyLess(RowKeyOf(rows[i]), RowKeyOf(rows[j]))

\* four rows, two of them tied, the tied pair ordered "1TB" before "256GB"
C2_Witness ==
  /\ pc = "write_diff"
  /\ Len(rows) = 4
  /\ rows[1].diff > rows[2].diff
  /\ rows[2].diff = rows[3].diff
  /\ rows[3].diff > rows[4].diff
  /\ RowKeyOf(rows[2]) = <<"iPhone 17", "1TB">>
  /\ RowKeyOf(rows[3]) = <<"iPhone 17", "256GB">>

\* C3 as stated: every price of both finished tables is at least the floor.
C3_BothTablesAboveFloor ==
  pc \in {"build", "write_diff", "write_meta", "done"} =>
    /\ \A k \in DOMAIN apple : apple[k] >= Floor
    /\ \A k \in DOMAIN morimori : morimori[k] >= Floor

\* C3 (amended): every price of the retailer table is at least the floor of
\* 50,000, at every point of the run; the reseller table has no floor.
C3_RetailerAboveFloor == \A k \in DOMAIN apple : apple[k] >= Floor

\* the page with 1,200, 60,000 and 55,000 after "256gb" has been scraped
C3_Witness ==
  /\ <<"iPhone 17", "256GB">> \in DOMAIN apple
  /\ apple[<<"iPhone 17", "256GB">>] = 55000
  /\ docs["iPhone 17"] = <<"256gb 1,200円 60,000円 55,000円", "">>

JustCleaned == pc \in {"apple_fetch", "morimori_fetch", "failed"} /\ mdl > 1

CleanedModel == APPLE_MODELS[mdl - 1]

KeptTier(i) == <<CleanedModel, cap_order[i]>> \in DOMAIN apple

\* price of the last tier kept before tier i, 0 when none was kept
LastKeptBefore(i) ==
  LET earlier == {j \in 1..(i - 1) : KeptTier(j)}
  IN IF earlier = {} THEN 0
     ELSE apple[<<CleanedModel, cap_order[CHOOSE j \in earlier : \A o \in earlier : o <= j]>>]

ExampleCandidates ==
  [c \in {"128GB", "256GB", "512GB", "1TB"} |->
     CASE c = "128GB" -> 129800 [] c = "256GB" -> 149800
       [] c = "512GB" -> 120000 [] c = "1TB" -> 189800]

C5_NoWriteAfterFetchFailure ==
  /\ pc = "failed" => ~diff_written /\ ~meta_written
  /\ (diff_written \/ meta_written) =>
       /\ fetched = AppleUrls \o <<MORIMORI_URL>>
       /\ DOMAIN docs = DOMAIN APPLE_BUY_PAGES
       /\ pc \in {"write_meta", "done"}
       /\ diff_json = build_diff_rows(apple, morimori)
  /\ meta_written => diff_written

\* the reseller fetch failed after the retailer table was filled
C5_Witness ==
  /\ pc = "failed"
  /\ Len(fetched) = Len(APPLE_MODELS)
  /\ apple # EmptyDict
  /\ ~diff_written
  /\ ~meta_written

\* what the filters and extractors of the loop body give for one row
RowFacts(cells) ==
  LET row == RowText(cells)
      yens == parse_yen_values(row)
  IN [qualifies |-> Qualifies(cells),
      key |-> <<Classify(row), extract_capacity(row)>>,
      amounts |-> {yens[n] : n \in 1..Len(yens)},
      proMaxText |-> Contains(row, "iPhone 17 Pro Max")]

\* the facts of every row the reseller page can hold, computed once
FactsOf == [cells \in MorimoriRows \cup MorimoriRowsSmall |-> RowFacts(cells)]

\* C6: a qualifying row whose text contains "iPhone 17 Pro Max" is stored under
\* the model "iPhone 17 Pro Max" and changes no entry of any other model.
C6_ProMaxNeverMisclassified ==
  [][ ( /\ pc = "morimori_rows"
        /\ ri <= Len(mrows)
        /\ ri' = ri + 1
        /\ FactsOf[mrows[ri]].qualifies
        /\ FactsOf[mrows[ri]].proMaxText )
      => /\ \A k \in DOMAIN morimori' :
              k[1] # ProMax => k \in DOMAIN morimori /\ morimori'[k] = morimori[k]
         /\ \E k \in DOMAIN morimori' :
              /\ k[1] = ProMax
              /\ \A v \in FactsOf[mrows[ri]].amounts : morimori'[k] >= v
              /\ \A o \in DOMAIN morimori' \ {k} :
                   o \in DOMAIN morimori /\ morimori'[o] = morimori[o] ]_vars

\* such a row has just been processed
C6_Witness ==
  /\ pc = "morimori_rows"
  /\ ri > 1
  /\ FactsOf[mrows[ri - 1]].qualifies
  /\ FactsOf[mrows[ri - 1]].proMaxText
  /\ DOMAIN morimori = {<<ProMax, "256GB">>}

\* C7: after any number of rows, the reseller table has exactly the keys of the
\* qualifying rows processed, each with the maximum currency amount over all
\* qualifying rows of that key; rows failing a filter change nothing.
C7_MaxOverQualifyingRows ==
  pc \in {"morimori_rows", "build"} =>
    LET facts == [i \in 1..(ri - 1) |-> FactsOf[mrows[i]]]
        qualifying == {i \in 1..(ri - 1) : facts[i].qualifies}
        amountsOf(k) == UNION {facts[i].amounts : i \in {j \in qualifying : facts[j].key = k}}
    IN /\ DOMAIN morimori = {facts[i].key : i \in qualifying}
       /\ \A k \in DOMAIN morimori :
            /\ morimori[k] \in amountsOf(k)
            /\ \A v \in amountsOf(k) : v <= morimori[k]

\* the 190,000 row, then a row failing a filter, then the 180,000 row of the same key
C7_Witness ==
  /\ pc = "build"
  /\ Len(mrows) = 3
  /\ FactsOf[mrows[1]].qualifies /\ FactsOf[mrows[1]].amounts = {190000, 5000}
  /\ ~FactsOf[mrows[2]].qualifies
  /\ FactsOf[mrows[3]].qualifies /\ FactsOf[mrows[3]].amounts = {180000}
  /\ FactsOf[mrows[1]].key = FactsOf[mrows[3]].key
  /\ morimori = [k \in {<<ProMax, "256GB">>} |-> 190000]

\* the amounts >= 50,000 in the 2000 characters that follow offset pos
WindowAmounts(pos) ==
  LET yens == parse_yen_values(Slice(script_text, pos, pos + WindowLen))
  IN {yens[n] : n \in {m \in 1..Len(yens) : yens[m] >= Floor}}

\* processed occurrences of capacity c whose window holds such an amount
PricedOccurrences(c) ==
  {i \in 1..(ci - 1) : found_caps[i][1] = c /\ WindowAmounts(found_caps[i][2]) # {}}

FirstOf(S) == CHOOSE i \in S : \A o \in S : i <= o

\* C8: while the occurrences of a page are walked, the candidate of a capacity
\* is the minimum amount >= 50,000 of the window after its earliest processed
\* occurrence whose window holds such an amount; there is no candidate while no
\* processed occurrence has one.
C8_CandidateIsWindowMinimum ==
  pc = "apple_caps" =>
    /\ DOMAIN temp = {c \in Canonical : PricedOccurrences(c) # {}}
    /\ \A c \in DOMAIN temp :
         LET w == WindowAmounts(found_caps[FirstOf(PricedOccurrences(c))][2])
         IN temp[c] \in w /\ \A v \in w : temp[c] <= v

\* a first occurrence whose window (two filler runs) holds no amount, and the
\* second occurrence of the same capacity recorded
C8_Witness ==
  /\ pc = "apple_caps"
  /\ mdl = 2
  /\ ci > Len(found_caps)
  /\ Len(found_caps) = 3
  /\ found_caps[1][1] = "128GB" /\ found_caps[2][1] = "128GB"
  /\ WindowAmounts(found_caps[1][2]) = {}
  /\ WindowAmounts(found_caps[2][2]) = {70000}
  /\ temp = [c \in {"128GB", "256GB"} |-> 70000]
  /\ apple = [k \in {<<"iPhone 17", "256GB">>} |-> 55000]

\* C9: every capacity of a key of the retailer table, of the reseller table and
\* of the diff rows is one of the five canonical identifiers; "256 G B" and
\* "256GB" extract to "256GB" and "3TB" extracts to nothing.
C9_CanonicalCapacities ==
  /\ \A k \in DOMAIN apple : k[2] \in Canonical
  /\ \A c \in DOMAIN temp : c \in Canonical
  /\ \A k \in DOMAIN morimori : k[2] \in Canonical
  /\ \A i \in 1..Len(rows) : rows[i].capacity \in Canonical
  /\ \A i \in 1..Len(diff_json) : diff_json[i].capacity \in Canonical
  /\ extract_capacity("256 G B") = "256GB"
  /\ extract_capacity("256GB") = "256GB"
  /\ extract_capacity("3TB") = NoneStr

\* keys that came from "256gb" and "1Tb" in scripts and from "1 TB" in a row,
\* next to a processed "3TB" row
C9_Witness ==
  /\ pc = "done"
  /\ docs["iPhone 17"] = <<"128GB 150,000円~~1Tb 160,000円">>
  /\ docs["iPhone Air"] = <<"256gb 1,200円 60,000円 55,000円", "">>
  /\ <<"iPhone 17", "1TB">> \in DOMAIN apple
  /\ <<"iPhone Air", "256GB">> \in DOMAIN apple
  /\ mrows = << <<"iPhone 17", "3TB", "新品", "70,000円">>,
                <<"iPhone 17", "1 TB", "新品", "155,000円">> >>
  /\ DOMAIN morimori = {<<"iPhone 17", "1TB">>}
  /\ Len(diff_json) = 1
  /\ diff_json[1].capacity = "1TB"

Scraped == {APPLE_MODELS[i] : i \in 1..(mdl - 1)}

EntriesOf(m) == {<<k[2], apple[k]>> : k \in {x \in DOMAIN apple : x[1] = m}}

\* C10: two models that share a source URL and for which fetch returned the
\* same document ("iPhone 17 Pro" and "iPhone 17 Pro Max") have the same
\* capacities with the same prices in the retailer table.
C10_SameUrlSameEntries ==
  /\ APPLE_BUY_PAGES["iPhone 17 Pro"] = APPLE_BUY_PAGES[ProMax]
  /\ \A m1, m2 \in Scraped :
       ( /\ APPLE_BUY_PAGES[m1] = APPLE_BUY_PAGES[m2]
         /\ docs[m1] = docs[m2] )
       => EntriesOf(m1) = EntriesOf(m2)

\* both models scraped from the same non-empty page, the base model from another
C10_Witness ==
  /\ mdl > 3
  /\ docs["iPhone 17 Pro"] = docs[ProMax]
  /\ docs["iPhone 17"] # docs[ProMax]
  /\ EntriesOf(ProMax) = {<<"128GB", 90000>>, <<"2TB", 99800>>}
  /\ EntriesOf("iPhone 17 Pro") = EntriesOf(ProMax)

====
